---- MODULE Spec2Model ----
(***************************************************************************)
(* A model of libsimba's authenticated-request subsystem:                  *)
(*   - the retrying HTTP transport        (libsimba/utils.py)              *)
(*   - the token cache and the providers  (libsimba/auth/*.py)             *)
(*   - the request pipeline               (libsimba/simba_request.py)      *)
(* Durations of sleeps are in milliseconds, the wall clock is in seconds.  *)
(***************************************************************************)
EXTENDS Integers, Sequences, FiniteSets, TLC

VARIABLES
    now,            \* wall clock (seconds, UTC)
    server,         \* the answers the remote side may give to one request
    transport,      \* the RetryTransport instance and the request it is handling
    settings,       \* the process-wide Settings the code reads
    access_tokens,  \* ClientCredentials.access_tokens of PROVIDERS["client_credentials"]
    token_file,     \* the files <client_id>_token.json in TOKEN_DIR
    op              \* the library call in progress and what it has done so far

cacheVars == <<access_tokens, token_file>>
authVars == <<settings, access_tokens, token_file, op>>
vars == <<now, server, transport, settings, access_tokens, token_file, op>>

----------------------------------------------------------------------------
(* Bounds of the model *)

\* largest max_attempts a transport is constructed with
MaxAttempts == 2
\* number of clock advances
MaxTicks == 2

----------------------------------------------------------------------------
(* Values *)

Min(a, b) == IF a <= b THEN a ELSE b

\* seconds to milliseconds
Ms(s) == s * 1000

Pow2(n) == IF n <= 0 THEN 1 ELSE IF n = 1 THEN 2 ELSE IF n = 2 THEN 4 ELSE IF n = 3 THEN 8 ELSE 16

\* the length of one clock advance, in seconds
TickSteps == {30}

\* A Retry-After header: absent, integer seconds ("20"), an HTTP date (v is
\* the absolute time it names, in seconds) or text that is neither.
NoRetryAfter == [kind |-> "none", v |-> 0]
RetryAfterValues ==
    { NoRetryAfter,
      [kind |-> "digits", v |-> 2],
      [kind |-> "digits", v |-> 20],
      [kind |-> "date", v |-> 4],
      [kind |-> "date", v |-> 45],
      [kind |-> "invalid", v |-> 0] }

\* The paging fields of a JSON document: the lists under "results" and
\* "items" (<<>> when the key is missing or the list is empty), the URL under
\* "next" ("None" when missing or null) and the numbers under "page" and
\* "pages" (1 when missing).
PageOf(results, next, items, page, pages) ==
    [results |-> results, next |-> next, items |-> items, page |-> page, pages |-> pages]
NoPage == PageOf(<<>>, "None", <<>>, 1, 1)

\* A response body: kind "json" is any JSON document, "malformed" is a body
\* that is not JSON, "token" is a token endpoint's answer, whose exp is its
\* expires_in (seconds) or, from the platform endpoint, its expires_at.
\* state is the text under "state" ("none" when the key is missing).
Body(kind, exp) == [kind |-> kind, exp |-> exp, page |-> NoPage, state |-> "none"]
Json == Body("json", 0)
PageBody(page) == [Json EXCEPT !.page = page]
StateBody(state) == [Json EXCEPT !.state = state]
Malformed == Body("malformed", 0)

\* A response of the wrapped transport. status = 0 stands for the wrapped
\* transport raising httpx.ConnectError instead of answering.
Resp(status, ra, body) == [status |-> status, retry_after |-> ra, body |-> body]
NoResponse == Resp(-1, NoRetryAfter, Body("none", 0))
ConnectError == Resp(0, NoRetryAfter, Body("ConnectError", 0))
IsException(r) == r.status = 0

----------------------------------------------------------------------------
(* RetryTransport (libsimba/utils.py) *)

RETRYABLE_METHODS == {"HEAD", "GET", "PUT", "DELETE", "OPTIONS", "TRACE"}
RETRYABLE_STATUS_CODES == {413, 429, 500, 502, 503, 504}
\* seconds
MAX_BACKOFF_WAIT == 10
\* defaults of RetryTransport.__init__: backoff_factor (0.5 s, in ms) and
\* jitter_ratio (0.1, in percent)
DEFAULT_BACKOFF_FACTOR_MS == 500
DEFAULT_JITTER_PCT == 10

\* The constructor arguments (retryable_methods and retry_status_codes are
\* left at None, so the class constants are used).
TransportParams(max_attempts, backoff_factor, jitter_ratio, respect, close) ==
    [ max_attempts |-> max_attempts,
      max_backoff_wait |-> Ms(MAX_BACKOFF_WAIT),
      backoff_factor |-> backoff_factor,
      jitter_ratio |-> jitter_ratio,
      respect_retry_after_header |-> respect,
      close_connection_after_use |-> close ]

NoRequest == [method |-> "none", aio |-> FALSE]

\* RetryTransport.__init__: ValueError for a jitter ratio outside [0, 0.5]
RetryTransportInit(p) ==
    [ phase |-> IF p.jitter_ratio < 0 \/ p.jitter_ratio > 50 THEN "ValueError" ELSE "ready",
      max_attempts |-> p.max_attempts,
      max_backoff_wait |-> p.max_backoff_wait,
      backoff_factor |-> p.backoff_factor,
      jitter_ratio |-> p.jitter_ratio,
      respect_retry_after_header |-> p.respect_retry_after_header,
      close_connection_after_use |-> p.close_connection_after_use,
      retryable_methods |-> RETRYABLE_METHODS,
      retry_status_codes |-> RETRYABLE_STATUS_CODES,
      request |-> NoRequest,
      response |-> NoResponse,
      remaining_attempts |-> 0,
      attempts_made |-> 0,
      last_retry_info |-> <<>>,
      calls |-> 0,
      open |-> 0,
      seen |-> <<>>,
      \* the sleep taken last for the request (not program state): which
      \* resend it preceded, the time slept and the Retry-After header of
      \* the response being replaced
      slept |-> <<>> ]

NoTransport == [RetryTransportInit(TransportParams(0, 0, 0, FALSE, FALSE)) EXCEPT !.phase = "none"]

\* RetryTransport._calculate_sleep, in milliseconds; sign is random.choice([1, -1])
CalculateSleep(t, attempts_made, retry_after, clock, sign) ==
    LET backoff == (t.backoff_factor * Pow2(attempts_made)) \div 2
        jitter == ((backoff * t.jitter_ratio) \div 100) * sign
        total_backoff == backoff + jitter
        fallback == Min(total_backoff, t.max_backoff_wait)
    IN  IF t.respect_retry_after_header /\ retry_after.kind # "none"
        THEN IF retry_after.kind = "digits"
             THEN Ms(retry_after.v)
             ELSE IF retry_after.kind = "date" /\ retry_after.v - clock > 0
                  THEN Min(Ms(retry_after.v - clock), t.max_backoff_wait)
                  ELSE fallback
        ELSE fallback

\* (mutants of the loop condition: gives up one attempt early; never stops at zero)
ShouldRetry_GivesUpEarly(t) ==
    t.remaining_attempts > 1 /\ t.response.status \in t.retry_status_codes

ShouldRetry_OneTooMany(t) ==
    t.remaining_attempts >= 0 /\ t.response.status \in t.retry_status_codes

\* the loop condition of handle_request / handle_async_request
ShouldRetry(t) ==
    t.remaining_attempts > 0 /\ t.response.status \in t.retry_status_codes

\* whether the loop body closes the response it is about to replace:
\* handle_request only if close_connection_after_use, handle_async_request always
ClosesResponse(t) == t.request.aio \/ t.close_connection_after_use

\* a caller hands a request to handle_request / handle_async_request
TransportRequest(t, method, aio) ==
    [t EXCEPT !.phase = "created",
              !.request = [method |-> method, aio |-> aio],
              !.response = NoResponse,
              !.remaining_attempts = 0,
              !.attempts_made = 0,
              !.calls = 0,
              !.open = 0,
              !.seen = <<>>,
              !.slept = <<>>]

\* handle_request up to the loop: reset last_retry_info, first call of the
\* wrapped transport
FirstSend(t, r) ==
    IF IsException(r)
    THEN [t EXCEPT !.phase = "raised", !.last_retry_info = <<>>, !.calls = 1,
                   !.response = r]
    ELSE [t EXCEPT !.phase = "sent", !.last_retry_info = <<>>, !.calls = 1,
                   !.response = r, !.open = 1, !.seen = <<r.status>>,
                   !.remaining_attempts = t.max_attempts, !.attempts_made = 0]

\* one iteration of the loop: close, sleep, resend, count
RetryOnce(t, r, clock, sign) ==
    LET closed == IF ClosesResponse(t) THEN 1 ELSE 0
        sleep_time == CalculateSleep(t, t.attempts_made, t.response.retry_after, clock, sign)
        slept == <<[n |-> t.attempts_made + 1, sleep_time |-> sleep_time,
                    retry_after |-> t.response.retry_after]>>
    IN  IF IsException(r)
        THEN [t EXCEPT !.phase = "raised", !.calls = @ + 1, !.open = @ - closed,
                       !.response = r, !.slept = slept]
        ELSE [t EXCEPT !.calls = @ + 1,
                       !.slept = slept,
                       !.open = @ - closed + 1,
                       !.response = r,
                       !.seen = Append(@, r.status),
                       !.attempts_made = @ + 1,
                       !.remaining_attempts = @ - 1,
                       !.last_retry_info =
                           <<[attempts_made |-> t.attempts_made + 1,
                              max_attempts |-> t.max_attempts,
                              remaining_attempts |-> t.remaining_attempts - 1,
                              sleep_time |-> sleep_time,
                              response_code |-> r.status]>>]

TrSend ==
    /\ transport.phase = "created"
    /\ \E r \in server : transport' = FirstSend(transport, r)
    /\ UNCHANGED <<now, server, authVars>>

TrRetry ==
    /\ transport.phase = "sent"
    /\ ShouldRetry(transport)
    /\ \E r \in server, sign \in {1, -1} :
          transport' = RetryOnce(transport, r, now, sign)
    /\ UNCHANGED <<now, server, authVars>>

TrReturn ==
    /\ transport.phase = "sent"
    /\ ~ShouldRetry(transport)
    /\ transport' = [transport EXCEPT !.phase = "returned"]
    /\ UNCHANGED <<now, server, authVars>>

----------------------------------------------------------------------------
(* Tokens, logins, headers (libsimba/schemas.py) *)

ClientIds == {"me"}
Secrets == {"topsecret"}

\* AuthProviderName; "None" is a Login without provider
RegisteredProviders == {"BLK", "KC", "PLAT"}

\* AuthToken; NoToken is Python's None
Token(token, type, expires) == [token |-> token, type |-> type, expires |-> expires]
NoToken == Token("", "", 0)

\* Login
Login(auth_flow, client_id, client_secret, provider) ==
    [ auth_flow |-> auth_flow, client_id |-> client_id,
      client_secret |-> client_secret, provider |-> provider ]
NoLogin == Login("none", "me", "", "None")

\* A headers dict is a function from the names present to their values; a
\* value is the sequence of the words of the header text, "" being <<>>.
EmptyHeaders == [k \in {} |-> <<>>]
HeaderGet(h, k) == IF k \in DOMAIN h THEN h[k] ELSE <<>>
\* Python truthiness of headers.get(k): None and "" are falsy
Truthy(v) == v # <<>>
HeaderSet(h, k, v) == [x \in DOMAIN h \cup {k} |-> IF x = k THEN v ELSE h[x]]

----------------------------------------------------------------------------
(* The token cache of ClientCredentials (libsimba/auth/client_credentials.py) *)

\* offset of token_expired, seconds
TOKEN_EXPIRY_OFFSET == 60

\* (mutant: a token expiring exactly at now + offset still counts as valid)
token_expired_Strict(token, clock) == clock + TOKEN_EXPIRY_OFFSET > token.expires

\* ClientCredentials.token_expired
token_expired(token, clock) == clock + TOKEN_EXPIRY_OFFSET >= token.expires

\* token.model_dump_json(): the text written to <client_id>_token.json
NoFile == <<>>
model_dump_json(token) == <<token.token, token.type, token.expires>>
\* AuthToken(**json.load(file))
AuthTokenFromJson(text) == Token(text[1], text[2], text[3])

\* (mutant: the token goes to the in-memory map only)
cache_token_MemoryOnly(c, st, client_id, token) ==
    [ mem |-> [c.mem EXCEPT ![client_id] = token], file |-> c.file ]

\* ClientCredentials.cache_token on the cache c = [mem, file]
cache_token(c, st, client_id, token) ==
    [ mem |-> [c.mem EXCEPT ![client_id] = token],
      file |-> IF st.WRITE_TOKEN_TO_FILE
               THEN [c.file EXCEPT ![client_id] = model_dump_json(token)]
               ELSE c.file ]

\* ClientCredentials.get_cached_token: the token returned and the cache left
get_cached_token(c, st, client_id, clock) ==
    LET token == c.mem[client_id]
        mem1 == IF token # NoToken /\ token_expired(token, clock)
                THEN [c.mem EXCEPT ![client_id] = NoToken]
                ELSE c.mem
    IN  IF token # NoToken /\ ~token_expired(token, clock)
        THEN [token |-> token, mem |-> c.mem, file |-> c.file]
        ELSE IF ~st.WRITE_TOKEN_TO_FILE
        THEN [token |-> NoToken, mem |-> mem1, file |-> c.file]
        ELSE IF c.file[client_id] # NoFile
        THEN LET loaded == AuthTokenFromJson(c.file[client_id])
             IN  IF token_expired(loaded, clock)
                 THEN [token |-> NoToken, mem |-> mem1,
                       file |-> [c.file EXCEPT ![client_id] = NoFile]]
                 ELSE [token |-> loaded, mem |-> mem1, file |-> c.file]
        ELSE [token |-> NoToken, mem |-> mem1, file |-> c.file]

Cache == [mem |-> access_tokens, file |-> token_file]

----------------------------------------------------------------------------
(* The library call in progress *)

\* no login has issued the token
NoIssuer == [provider |-> "none", client_secret |-> ""]

\* ConnectionConfig handed to a call: max_attempts, close_connection_after_use
Idle ==
    [ pc |-> "idle", kind |-> "none", aio |-> FALSE,
      login |-> NoLogin, authenticated |-> FALSE,
      in_headers |-> EmptyHeaders, headers |-> EmptyHeaders,
      max_attempts |-> 0, close_connection_after_use |-> FALSE,
      token |-> NoToken, exc |-> "none",
      \* SimbaRequest.method, the generator's next_page_url and params
      \* (params: -1 is None, 0 a dict without "page", n a dict with page n)
      \* and the value returned or yielded last
      \* and SimbaRequest.query_params (0: a dict without "page", n: page n)
      method |-> "none", next_page_url |-> "None", params |-> 0,
      query_params |-> 0,
      \* whether a FileDict (one File given by its path) is attached, and
      \* how many of its file handles are open
      files |-> FALSE, open_files |-> 0,
      result |-> [kind |-> "none", items |-> <<>>],
      \* what the call has done so far (not program state)
      at |-> 0, before |-> [mem |-> NoToken, file |-> NoFile],
      cache_reads |-> 0, exchanges |-> 0, posts |-> 0, first_status |-> -1,
      raised_in |-> "none", sent |-> <<>>, decoded |-> 0,
      answers |-> <<>>, answer |-> NoResponse, ended_at |-> 0,
      pages |-> <<>>, yields |-> <<>>, q0 |-> 0, prev_first |-> <<>>,
      data_answer |-> NoResponse, data_calls |-> 0,
      \* a wait_for_* helper: the max_time of its caller, the max_time and
      \* total_time of the invocation running, and (not program state) its
      \* polls and sleeps so far, all and up to the first poll that saw FAILED
      max_time |-> 0, cur_max_time |-> 0, total_time |-> 0,
      polls |-> 0, sleeps |-> 0, failed_at |-> 0, slept_at_failed |-> 0,
      only_pending |-> TRUE, completed_at |-> 0,
      \* the token that cache_token was last called with, and the provider
      \* and the client_secret of the login whose exchange it came from
      \* (not program state)
      put |-> NoToken, put_by |-> NoIssuer,
      \* whether the caller handed a ConnectionConfig to the call, the
      \* timeout of the ConnectionConfig the call works with, and (not
      \* program state) the timeout the caller's object had at the call
      config_given |-> FALSE, timeout |-> 0, timeout_in |-> 0,
      \* the method of Simba / SimbaSync the call was made through
      helper |-> "none",
      \* validate_params: method_name and inputs, and the message of the
      \* exception raised
      method_name |-> "none", inputs |-> [k |-> "none"],
      message |-> [text |-> "none", expected |-> -1, got |-> -1],
      \* concurrent logins: the call and the transport of each task, and
      \* (not program state) the tokens their exchanges have issued
      tasks |-> <<>>, issued |-> {} ]

\* the cache entries of a client id, as a call finds them
Snapshot(client_id) == [mem |-> access_tokens[client_id], file |-> token_file[client_id]]

\* the first request of a lazy retrieval that has ended, as a later
\* retrieval on the same SimbaRequest object finds it (not program state)
FirstRequest(o) ==
    IF o.kind = "retrieve_iter" /\ o.pc = "done" /\ o.sent # <<>>
    THEN <<[url |-> o.sent[1].url, params |-> o.sent[1].params]>>
    ELSE o.prev_first

\* the call is over: its caller has the result, and the SimbaRequest object
\* keeps its query_params
Return ==
    /\ op.pc \in {"done", "raised"}
    /\ op' = [Idle EXCEPT !.query_params = op.query_params,
                          !.prev_first = FirstRequest(op),
                          !.put = op.put, !.put_by = op.put_by]
    /\ UNCHANGED <<now, server, transport, settings, cacheVars>>

\* the process ends and a new one starts: a fresh ClientCredentials
\* instance, while the token files stay
Restart ==
    /\ op.pc = "idle"
    /\ \E c \in ClientIds : access_tokens[c] # NoToken
    /\ access_tokens' = [c \in ClientIds |-> NoToken]
    /\ UNCHANGED <<now, server, transport, settings, token_file, op>>

\* the tokens a caller hands to cache_token
DirectTokens == { Token("direct", "Bearer", e) : e \in {60, 120} }

\* a direct call of cache_token(client_id, token)
CallCacheToken ==
    /\ op.pc = "idle"
    /\ \E client_id \in ClientIds, token \in DirectTokens :
          LET c == cache_token(Cache, settings, client_id, token)
          IN  /\ access_tokens' = c.mem
              /\ token_file' = c.file
              /\ op' = [Idle EXCEPT !.pc = "done", !.kind = "cache_token",
                                    !.login = Login("none", client_id, "", "None"),
                                    !.token = token, !.at = now,
                                    !.before = Snapshot(client_id),
                                    !.put = token]
    /\ UNCHANGED <<now, server, transport, settings>>

\* a direct call of get_cached_token(client_id)
CallGetCachedToken ==
    /\ op.pc = "idle"
    /\ \E client_id \in ClientIds :
          LET r == get_cached_token(Cache, settings, client_id, now)
          IN  /\ access_tokens' = r.mem
              /\ token_file' = r.file
              /\ op' = [Idle EXCEPT !.pc = "done", !.kind = "get_cached_token",
                                    !.login = Login("none", client_id, "", "None"),
                                    !.token = r.token, !.at = now,
                                    !.before = Snapshot(client_id),
                                    !.cache_reads = 1, !.put = op.put, !.put_by = op.put_by]
    /\ UNCHANGED <<now, server, transport, settings>>

----------------------------------------------------------------------------
(* Login: SimbaRequest.login / async_login and ClientCredentials *)

\* the auth flows that have an entry in PROVIDERS (simba_request.py)
PROVIDERS == {"client_credentials"}

\* do_login: auth_provider or settings().AUTH_PROVIDER
ProviderName(login, st) ==
    IF login.provider # "None" THEN login.provider ELSE st.AUTH_PROVIDER

\* ClientCredentials.add_header
add_header(token, headers) ==
    HeaderSet(headers, "Authorization", <<token.type, token.token>>)

\* http_client(config) / async_http_client(config): a new RetryTransport
http_client(max_attempts, close) ==
    RetryTransportInit(
        TransportParams(max_attempts, DEFAULT_BACKOFF_FACTOR_MS, DEFAULT_JITTER_PCT, TRUE, close))

\* the access_token an auth server issues to a client through a provider
IssuedToken(provider, login) ==
    IF provider = "PLAT" THEN "platform-1234567890" ELSE "1234567890"

\* where a call goes once its login step is over
AfterLogin(o) == IF o.kind = "login" THEN "done" ELSE "request"

\* the call ends with an exception (raised_in: where the call was)
Raise(o, exc) == [o EXCEPT !.pc = "raised", !.exc = exc, !.raised_in = o.pc]

\* (mutant: the cache is consulted before the provider is looked up)
do_login_CacheFirst(client_id, provider_name, c, st, clock) ==
    LET r == get_cached_token(c, st, client_id, clock)
    IN  IF r.token = NoToken /\ provider_name \notin RegisteredProviders
        THEN [exc |-> "ValueError", token |-> NoToken, mem |-> r.mem, file |-> r.file, reads |-> 1]
        ELSE [exc |-> "none", token |-> r.token, mem |-> r.mem, file |-> r.file, reads |-> 1]

\* ClientCredentials.do_login: ValueError for a provider that is not in the
\* registry, else the cached token (or None) and the cache as the lookup left it
do_login(client_id, provider_name, c, st, clock) ==
    IF provider_name \notin RegisteredProviders
    THEN [exc |-> "ValueError", token |-> NoToken, mem |-> c.mem, file |-> c.file, reads |-> 0]
    ELSE LET r == get_cached_token(c, st, client_id, clock)
         IN  [exc |-> "none", token |-> r.token, mem |-> r.mem, file |-> r.file, reads |-> 1]

\* (mutant: the login goes ahead although the headers carry Authorization)
HasAuthorization_Never(headers) == FALSE

\* login_sync / login: not headers.get(self.header)
HasAuthorization(headers) == Truthy(HeaderGet(headers, "Authorization"))

\* (mutant: a cached token is attached but a new one is fetched all the same)
UseCached_Never(token) == FALSE

\* login_sync / login: "if not token" decides for the provider's exchange
UseCached(token) == token # NoToken

\* (mutant: the header is built from the token text alone)
LoggedIn_NoType(o, token, c, st) ==
    [ op |-> [o EXCEPT !.pc = AfterLogin(o), !.token = token, !.put = token,
                       !.headers = HeaderSet(o.headers, "Authorization", <<token.token>>)],
      cache |-> cache_token(c, st, o.login.client_id, token) ]

\* login_sync / login once they hold a token: add_header, cache_token, return
LoggedIn(o, token, c, st) ==
    [ op |-> [o EXCEPT !.pc = AfterLogin(o), !.token = token, !.put = token,
                       !.put_by = IF o.exchanges > 0
                                  THEN [provider |-> ProviderName(o.login, st),
                                        client_secret |-> o.login.client_secret]
                                  ELSE @,
                       !.headers = add_header(token, o.headers)],
      cache |-> cache_token(c, st, o.login.client_id, token) ]

\* The login step of a call o up to its first network exchange:
\* SimbaRequest.login / async_login, ClientCredentials.login_sync / login,
\* and the start of the provider's login_sync / login.  Yields the call, the
\* cache and the transport as the step leaves them.
BeginLogin(o, c, st, clock, tr) ==
    IF ~o.authenticated
    THEN [op |-> [o EXCEPT !.pc = AfterLogin(o)], cache |-> c, transport |-> tr]
    ELSE IF o.login.auth_flow \notin PROVIDERS
    THEN [op |-> Raise(o, "KeyError"), cache |-> c, transport |-> tr]
    ELSE IF HasAuthorization(o.headers)
    THEN [op |-> [o EXCEPT !.pc = AfterLogin(o)], cache |-> c, transport |-> tr]
    ELSE
    LET provider_name == ProviderName(o.login, st)
        d == do_login(o.login.client_id, provider_name, c, st, clock)
        c1 == [mem |-> d.mem, file |-> d.file]
        o1 == [o EXCEPT !.cache_reads = d.reads]
    IN  IF d.exc # "none"
        THEN [op |-> Raise(o1, d.exc), cache |-> c1, transport |-> tr]
        ELSE IF UseCached(d.token)
        THEN LoggedIn(o1, d.token, c1, st) @@ [transport |-> tr]
        ELSE IF provider_name = "KC"
        \* KcAuthProvider.login reads settings().SCOPE, which Settings does
        \* not have; KcAuthProvider.login_sync is a coroutine function, so the
        \* blocking caller gets a coroutine object and add_header fails on its
        \* token.type.  Either way AttributeError, before anything is sent.
        THEN [op |-> Raise(o1, IF o.aio THEN "AttributeError: Settings.SCOPE"
                                   ELSE "AttributeError: coroutine.type"),
              cache |-> c1, transport |-> tr]
        ELSE [op |-> [o1 EXCEPT !.pc = "token_post", !.exchanges = @ + 1],
              cache |-> c1,
              transport |-> TransportRequest(
                  http_client(o.max_attempts, o.close_connection_after_use),
                  "POST", o.aio)]

\* BlocksAuthProvider / PlatformAuthProvider login_sync / login after the
\* POST: the exception they re-raise, or "none"
TokenResponseError(t) ==
    IF t.phase = "raised" THEN "ConnectError"
    ELSE IF t.response.status >= 400 THEN "HTTPStatusError"
    ELSE IF t.response.body.kind = "malformed" THEN "JSONDecodeError"
    ELSE IF t.response.body.kind # "token" THEN "KeyError"
    ELSE "none"

\* the AuthToken a provider builds from the token endpoint's answer
TokenFromResponse(provider_name, login, body, clock) ==
    Token(IssuedToken(provider_name, login), "Bearer",
          IF provider_name = "PLAT" THEN body.exp ELSE clock + body.exp)

\* (mutant: the token of an exchange is attached but not cached)
EndLogin_NoCache(o, c, st, clock, t) ==
    LET exc == TokenResponseError(t)
        token == TokenFromResponse(ProviderName(o.login, st), o.login, t.response.body, clock)
    IN  IF exc # "none"
        THEN [op |-> Raise(o, exc), cache |-> c]
        ELSE [op |-> [o EXCEPT !.pc = AfterLogin(o), !.token = token,
                               !.headers = add_header(token, o.headers)],
              cache |-> c]

\* The rest of the login step, once the transport has answered the token POST
EndLogin(o, c, st, clock, t) ==
    LET exc == TokenResponseError(t)
        \* the POSTs that went out, and the status of the first answer (0: none)
        o1 == [o EXCEPT !.posts = @ + t.calls,
                        !.first_status = IF t.seen = <<>> THEN 0 ELSE t.seen[1],
                        !.answers = IF t.phase = "raised" THEN Append(t.seen, 0) ELSE t.seen,
                        !.answer = t.response,
                        !.ended_at = clock]
    IN  IF exc # "none"
        THEN [op |-> Raise(o1, exc), cache |-> c]
        ELSE LoggedIn(o1, TokenFromResponse(ProviderName(o.login, st), o.login,
                                            t.response.body, clock), c, st)

AuthLogins ==
    { Login("client_credentials", c, s, p) :
        c \in ClientIds, s \in Secrets, p \in {"None", "KC", "PLAT", "NOOP"} }
    \cup { Login("api-key", c, s, "None") : c \in ClientIds, s \in Secrets }
    \cup { Login("client_credentials", c, "guess", "PLAT") : c \in ClientIds }

Bob == [k \in {"bob"} |-> <<"test">>]
HeaderInputs ==
    { EmptyHeaders, Bob,
      HeaderSet(Bob, "Authorization", <<>>),
      HeaderSet(Bob, "Authorization", <<"Bearer", "10000000000000">>) }

\* the max_attempts of the ConnectionConfig handed to a call
ConfigAttempts == {1}

\* a new call with its arguments
NewCall(kind, aio, login, authenticated, headers, max_attempts, close) ==
    [Idle EXCEPT !.pc = "login", !.kind = kind, !.aio = aio, !.login = login,
                 !.authenticated = authenticated,
                 !.in_headers = headers, !.headers = headers,
                 !.max_attempts = max_attempts,
                 !.close_connection_after_use = close,
                 !.at = now, !.before = Snapshot(login.client_id),
                 !.put = op.put, !.put_by = op.put_by]

\* SimbaRequest.login(login, headers, config, authenticated) or, aio,
\* SimbaRequest.async_login, up to the token POST
CallLogin ==
    /\ op.pc = "idle"
    /\ \E aio \in BOOLEAN, login \in AuthLogins, authenticated \in BOOLEAN,
          headers \in HeaderInputs, max_attempts \in ConfigAttempts :
          LET r == BeginLogin(NewCall("login", aio, login, authenticated, headers,
                                      max_attempts, TRUE),
                              Cache, settings, now, transport)
          IN  /\ op' = r.op
              /\ access_tokens' = r.cache.mem
              /\ token_file' = r.cache.file
              /\ transport' = r.transport
    /\ UNCHANGED <<now, server, settings>>

\* the token POST has come back: the login step ends
TokenResponse ==
    /\ op.pc = "token_post"
    /\ transport.phase \in {"returned", "raised"}
    /\ LET r == EndLogin(op, Cache, settings, now, transport)
       IN  /\ op' = r.op
           /\ access_tokens' = r.cache.mem
           /\ token_file' = r.cache.file
    /\ transport' = NoTransport
    /\ UNCHANGED <<now, server, settings>>

----------------------------------------------------------------------------
(* Concurrent logins: tasks awaiting ClientCredentials.login on one
   provider instance.  A task is suspended only at its awaits, which are
   the network calls of its token exchange. *)

Tasks == {1, 2}

RaceLogins ==
    { Login("client_credentials", "me", "topsecret", p) : p \in {"None", "PLAT"} }

\* a task calls SimbaRequest.async_login(login, headers={}) and runs up to
\* the await of its token POST, or to its end when the cache has a token
TaskLogin ==
    \E i \in Tasks, login \in RaceLogins :
        /\ op.tasks[i].op.pc = "idle"
        /\ LET r == BeginLogin(NewCall("login", TRUE, login, TRUE, EmptyHeaders, 1, TRUE),
                               Cache, settings, now, NoTransport)
           IN  /\ op' = [op EXCEPT !.tasks[i] = [op |-> r.op, transport |-> r.transport]]
               /\ access_tokens' = r.cache.mem
               /\ token_file' = r.cache.file
        /\ UNCHANGED <<now, server, transport, settings>>

\* the transport of a task sends the POST for the first time
TaskSend ==
    \E i \in Tasks, r \in server :
        /\ op.tasks[i].transport.phase = "created"
        /\ op' = [op EXCEPT !.tasks[i].transport = FirstSend(@, r)]
        /\ UNCHANGED <<now, server, transport, settings, cacheVars>>

\* the transport of a task resends the POST
TaskRetry ==
    \E i \in Tasks, r \in server, sign \in {1} :
        /\ op.tasks[i].transport.phase = "sent"
        /\ ShouldRetry(op.tasks[i].transport)
        /\ op' = [op EXCEPT !.tasks[i].transport = RetryOnce(@, r, now, sign)]
        /\ UNCHANGED <<now, server, transport, settings, cacheVars>>

\* the task resumes with the answer to its token POST: the rest of its
\* login runs without suspension
TaskResponse ==
    \E i \in Tasks :
        LET t == op.tasks[i].transport
            answered == IF t.phase = "sent" THEN [t EXCEPT !.phase = "returned"] ELSE t
            r == EndLogin(op.tasks[i].op, Cache, settings, now, answered)
        IN  /\ op.tasks[i].op.pc = "token_post"
            /\ \/ t.phase = "raised"
               \/ t.phase = "sent" /\ ~ShouldRetry(t)
            /\ op' = [op EXCEPT !.tasks[i] = [op |-> r.op, transport |-> NoTransport],
                                !.issued = IF r.op.pc = "done" THEN @ \cup {r.op.token} ELSE @]
            /\ access_tokens' = r.cache.mem
            /\ token_file' = r.cache.file
            /\ UNCHANGED <<now, server, transport, settings>>

----------------------------------------------------------------------------
(* The request pipeline (libsimba/simba_request.py) *)

\* largest number of pages a consumer asks of one lazy retrieval
MaxPages == 3

PipelineKinds == {"send", "call", "retrieve", "retrieve_iter"}

\* the methods send_sync / send have a branch for
SendBranches(aio) ==
    {"GET", "PUT", "PATCH", "POST"} \cup (IF aio THEN {"DELETE"} ELSE {})

\* the methods of GetRequest, PutRequest, PostRequest, PatchRequest and
\* DeleteRequest
SendMethods == {"GET", "PUT", "POST", "PATCH", "DELETE"}

\* the HTTP method of the data request of a call
DataMethod(o) == IF o.kind = "send" THEN o.method ELSE "GET"

\* build_url(base, endpoint, query_params) of SimbaRequest.url, as far as
\* the page of the query goes
build_url(query_params) ==
    IF query_params = 0 THEN "url" ELSE "url?page=" \o ToString(query_params)

\* "if not results" of the loop of retrieve_iter_sync / retrieve_iter
NoResults_Never(results) == FALSE

NoResults(results) == results = <<>>

\* Pager.list
PagerList(page) ==
    IF page.results # <<>> THEN page.results
    ELSE IF page.items # <<>> THEN page.items
    ELSE <<>>

\* (mutant: the URL of the page just fetched is kept as the next one)
PagerNext_SameUrl(url, page, params) ==
    IF page.results # <<>>
    THEN [exc |-> "none", url |-> url, params |-> -1]
    ELSE [exc |-> "none", url |-> "None", params |-> -1]

\* Pager.next: the next URL and params, or the TypeError of params["page"] =
\* ... on params that are None
PagerNext(url, page, params) ==
    IF page.results # <<>>
    THEN [exc |-> "none", url |-> page.next, params |-> -1]
    ELSE IF page.items # <<>> /\ page.page < page.pages
    THEN IF params = -1
         THEN [exc |-> "TypeError", url |-> url, params |-> params]
         ELSE [exc |-> "none", url |-> url, params |-> page.page + 1]
    ELSE [exc |-> "none", url |-> "None", params |-> -1]

\* (mutant: the status of the response is not looked at)
JsonResponseOrRaise_AnyStatus(response) ==
    IF response.body.kind = "malformed" THEN "SimbaInvalidURLException" ELSE "none"

\* SimbaRequest._json_response_or_raise: response.json() comes before
\* raise_for_status(); the exception raised, or "none"
JsonResponseOrRaise(response) ==
    IF response.body.kind = "malformed" THEN "SimbaInvalidURLException"
    ELSE IF response.status >= 400 THEN "LibSimbaException"
    ELSE "none"

\* (mutant: the data request is built from the headers the caller passed)
IssueRequest_CallerHeaders(o, t, url, params) ==
    [ op |-> [o EXCEPT !.pc = "data_request",
                       !.sent = Append(@, [method |-> DataMethod(o),
                                           headers |-> o.in_headers, url |-> url,
                                           params |-> params, decoded |-> o.decoded])],
      transport |-> TransportRequest(t, DataMethod(o), o.aio) ]

\* client.get / put / patch / post / delete(url, headers=headers, ...): the
\* data request goes to the transport t with the headers of the login step
IssueRequest(o, t, url, params) ==
    [ op |-> [o EXCEPT !.pc = "data_request",
                       !.sent = Append(@, [method |-> DataMethod(o),
                                           headers |-> o.headers, url |-> url,
                                           params |-> params, decoded |-> o.decoded])],
      transport |-> TransportRequest(t, DataMethod(o), o.aio) ]

\* From the return of the login step to the data request: the client is
\* made, and send_sync / send pick the branch of the method (none of them:
\* "response" is unbound at the return statement).
BeginRequest(o) ==
    LET client == http_client(o.max_attempts, o.close_connection_after_use)
    IN  IF o.kind = "send" /\ o.method \notin SendBranches(o.aio)
        THEN [op |-> Raise(o, "UnboundLocalError"), transport |-> NoTransport]
        ELSE IF o.kind = "retrieve_iter"
        \* next_page_url = self.url; params = self.query_params
        THEN IssueRequest([o EXCEPT !.next_page_url = build_url(o.query_params),
                                    !.params = o.query_params],
                          client, build_url(o.query_params), o.query_params)
        ELSE IF o.kind = "send" /\ o.method = "POST" /\ o.files
        \* files=files.open(): File.open opens the path
        THEN IssueRequest([o EXCEPT !.open_files = 1], client, build_url(o.query_params), -1)
        ELSE IssueRequest(o, client, build_url(o.query_params), -1)

\* What a call does with the answer to its data request: _process_response
\* (send, call), _json_response_or_raise and Pager.list (retrieve), and one
\* turn of the loop of retrieve_iter up to its yield.
EndRequest(o, t) ==
    LET exc == IF t.phase = "raised" THEN "ConnectError"
               ELSE JsonResponseOrRaise(t.response)
        page == t.response.body.page
        \* files.close() is the statement after client.post(...): it is
        \* reached only when the post has returned a response
        o0 == [o EXCEPT !.data_answer = t.response, !.data_calls = t.calls,
                        !.open_files = IF t.phase = "raised" THEN @ ELSE 0]
        o1 == [o0 EXCEPT !.decoded = @ + 1, !.pages = Append(@, page)]
        results == PagerList(page)
        n == PagerNext(o.next_page_url, page, o.params)
        None == [kind |-> "none", items |-> <<>>]
        list == [kind |-> "list", items |-> results]
    IN  IF exc # "none" THEN Raise(o0, exc)
        ELSE IF o.kind \in {"send", "call"}
        THEN [o1 EXCEPT !.pc = "done", !.result = [kind |-> "dict", items |-> <<>>]]
        ELSE IF o.kind = "retrieve"
        THEN [o1 EXCEPT !.pc = "done", !.result = [kind |-> "list", items |-> results]]
        ELSE IF NoResults(results)
        \* yield None, then return: the generator is over at its next resumption
        THEN [o1 EXCEPT !.pc = "yielded", !.next_page_url = "None",
                        !.result = None, !.yields = Append(@, None)]
        ELSE IF n.exc # "none" THEN Raise(o1, n.exc)
        \* params is the dict self.query_params itself as long as it is a
        \* dict: params["page"] = ... of Pager.next changes both
        ELSE [o1 EXCEPT !.pc = "yielded", !.next_page_url = n.url, !.params = n.params,
                        !.query_params = IF n.params > 0 THEN n.params ELSE @,
                        !.result = list, !.yields = Append(@, list)]

PipeLogins ==
    { Login("client_credentials", "me", "topsecret", "None"),
      Login("api-key", "me", "topsecret", "None") }

PipeHeaders == { Bob, HeaderSet(Bob, "Authorization", <<"Bearer", "10000000000000">>) }

\* send_sync / call_sync / retrieve_sync / retrieve_iter_sync (first
\* resumption) or, aio, send / call / retrieve / retrieve_iter: the login
\* step up to its token POST
CallPipeline ==
    /\ op.pc = "idle"
    /\ \E kind \in PipelineKinds, aio \in BOOLEAN, method \in SendMethods,
          login \in PipeLogins, authenticated \in BOOLEAN,
          headers \in PipeHeaders, max_attempts \in ConfigAttempts,
          same_object \in BOOLEAN, files \in BOOLEAN :
          /\ kind # "send" => method = "GET"
          /\ files => (kind = "send" /\ method = "POST")
          /\ LET \* the call is made on the SimbaRequest object of the call
                 \* before, or on a new one
                 q == IF same_object THEN op.query_params ELSE 0
                 call == [NewCall(kind, aio, login, authenticated, headers,
                                  max_attempts, TRUE)
                             EXCEPT !.method = method, !.files = files,
                                    !.query_params = q, !.q0 = q,
                                    !.prev_first = IF same_object THEN op.prev_first
                                                   ELSE <<>>]
                 r == BeginLogin(call, Cache, settings, now, transport)
             IN  /\ op' = r.op
                 /\ access_tokens' = r.cache.mem
                 /\ token_file' = r.cache.file
                 /\ transport' = r.transport
    /\ UNCHANGED <<now, server, settings>>

\* the login step has returned the headers: the data request is issued
SendData ==
    /\ op.pc = "request"
    /\ LET r == BeginRequest(op)
       IN  /\ op' = r.op
           /\ transport' = r.transport
    /\ UNCHANGED <<now, server, settings, cacheVars>>

\* the transport has answered the data request (or raised)
DataResponse ==
    /\ op.pc = "data_request"
    /\ transport.phase \in {"returned", "raised"}
    /\ op' = EndRequest(op, transport)
    /\ transport' = IF op'.pc = "yielded"
                    THEN [transport EXCEPT !.phase = "ready"]
                    ELSE NoTransport
    /\ UNCHANGED <<now, server, settings, cacheVars>>

\* the consumer resumes the generator of retrieve_iter_sync / retrieve_iter:
\* the loop ends, or the next page is requested through the same client
NextPage ==
    /\ op.pc = "yielded"
    /\ IF op.next_page_url = "None"
       THEN /\ op' = [op EXCEPT !.pc = "done"]
            /\ transport' = NoTransport
       ELSE /\ Len(op.sent) < MaxPages
            /\ LET r == IssueRequest(op, transport, op.next_page_url, op.params)
               IN  /\ op' = r.op
                   /\ transport' = r.transport
    /\ UNCHANGED <<now, server, settings, cacheVars>>

\* the consumer closes the generator instead of resuming it
Close ==
    /\ op.pc = "yielded"
    /\ op.next_page_url # "None"
    /\ op' = [op EXCEPT !.pc = "done"]
    /\ transport' = NoTransport
    /\ UNCHANGED <<now, server, settings, cacheVars>>

----------------------------------------------------------------------------
(* Parameter validation (libsimba/param_checking.py) *)

\* Python values: None, int, bool, str, list and dict
NoneV == [k |-> "none"]
IntV(n) == [k |-> "int", n |-> n]
BoolV(b) == [k |-> "bool", b |-> b]
StrV(text) == [k |-> "str", text |-> text]
ListV(items) == [k |-> "list", items |-> items]
DictV(f) == [k |-> "dict", f |-> f]
EmptyDict == DictV([x \in {} |-> NoneV])

\* bool(value) is False
Falsy(value) ==
    \/ value.k = "none"
    \/ value.k = "int" /\ value.n = 0
    \/ value.k = "bool" /\ ~value.b
    \/ value.k = "str" /\ value.text = ""
    \/ value.k = "list" /\ value.items = <<>>
    \/ value.k = "dict" /\ DOMAIN value.f = {}

\* dict.get(k)
DictGet(d, key) == IF key \in DOMAIN d.f THEN d.f[key] ELSE NoneV

\* int(value) of a str: the texts that are base 10 literals, with their value
Literals == [x \in {"0", "1", "-1"} |-> CASE x = "0" -> 0 [] x = "1" -> 1 [] x = "-1" -> 0 - 1]

\* the outcome of a validation: no exception, or its type and message
Msg(text, expected, got) == [text |-> text, expected |-> expected, got |-> got]
Passed == [exc |-> "none", message |-> Msg("none", -1, -1)]
ValueError(text) == [exc |-> "ValueError", message |-> Msg(text, -1, -1)]
LengthError(expected, got) ==
    [exc |-> "ValueError", message |-> Msg("Unexpected length. Expected but got", expected, got)]
AttributeError == [exc |-> "AttributeError", message |-> Msg("object has no attribute 'get'", -1, -1)]

\* A solidity type string: "struct " prefix or not, the name, and the
\* bracketed lengths in the order written ("uint256[4][2]" has <<4, 2>>;
\* 0 stands for "[]")
Decl(struct, base, dims) == [struct |-> struct, base |-> base, dims |-> dims]

\* the contract metadata: the params of the methods and the components of
\* the struct types, each a list of name / type
Param(name, type) == [name |-> name, type |-> type]
Uint == Decl(FALSE, "uint256", <<>>)
Metadata ==
    [ methods |->
        [ getTestData |-> <<Param("tokenId", Uint)>>,
          setFlag |-> <<Param("flag", Decl(FALSE, "bool", <<>>))>>,
          dyn_arr |-> <<Param("first", Decl(FALSE, "uint256", <<0>>))>>,
          nested_arr |-> <<Param("first", Decl(FALSE, "uint256", <<1, 2>>))>>,
          structTest |-> <<Param("addr", Decl(TRUE, "Addr", <<>>)),
                           Param("_bundleHash", Decl(FALSE, "string", <<>>))>>,
          structArr |-> <<Param("addrs", Decl(TRUE, "Addr", <<0>>))>> ],
      types |->
        [ Addr |-> <<Param("number", Uint)>> ] ]

RECURSIVE Reverse(_)
\* get_dimension_lengths: ret.insert(0, ...) for each dimension in turn
Reverse(dims) == IF dims = <<>> THEN <<>> ELSE Append(Reverse(Tail(dims)), Head(dims))
get_dimension_lengths(dims) == Reverse(dims)

\* get_type_info: data type, is struct, dimensions
get_type_info(data_type) ==
    [ data_type |-> data_type.base, struct |-> data_type.struct,
      dimensions |-> IF data_type.dims # <<>>
                     THEN get_dimension_lengths(data_type.dims) ELSE <<>> ]

\* ParamChecking.expect_scalar, for the bool and uint types
expect_scalar(data_type, value) ==
    IF value.k = "none" THEN ValueError("Values cannot be null")
    ELSE IF data_type = "bool"
    THEN IF value.k # "bool" THEN ValueError("Expected boolean") ELSE Passed
    ELSE IF data_type = "uint256"
    THEN IF value.k \notin {"int", "bool", "str"} THEN ValueError("Expected int or string")
         ELSE IF value.k = "str" /\ value.text \notin DOMAIN Literals
         THEN ValueError("invalid literal for int() with base 10")
         ELSE IF value.k = "int" /\ value.n < 0 THEN ValueError("Expected non negative int")
         ELSE IF value.k = "str" /\ Literals[value.text] < 0
         THEN ValueError("Expected non negative int")
         ELSE Passed
    ELSE Passed

RECURSIVE validate_from(_, _, _)
RECURSIVE validate_items(_, _, _, _, _)
RECURSIVE validate_param(_, _, _, _)

\* ParamChecking.validate: the loop over params from its i-th entry on.
\* inputs.get(k) of something that is not a dict raises AttributeError.
validate_from(inputs, param_list, i) ==
    IF i > Len(param_list) THEN Passed
    ELSE LET key == param_list[i].name
             type_info == get_type_info(param_list[i].type)
         IN  IF key = "_bundleHash" THEN validate_from(inputs, param_list, i + 1)
             ELSE IF inputs.k # "dict" THEN AttributeError
             ELSE IF Falsy(DictGet(inputs, key)) THEN ValueError("Unexpected keys")
             ELSE LET r == validate_param(DictGet(inputs, key), type_info.data_type,
                                          type_info.struct, type_info.dimensions)
                  IN  IF r.exc # "none" THEN r
                      ELSE validate_from(inputs, param_list, i + 1)

\* for v in input: self.validate_param(..., dimensions=dimensions[1:])
validate_items(items, i, data_type, struct, dimensions) ==
    IF i > Len(items) THEN Passed
    ELSE LET r == validate_param(items[i], data_type, struct, dimensions)
         IN  IF r.exc # "none" THEN r
             ELSE validate_items(items, i + 1, data_type, struct, dimensions)

\* ParamChecking.validate_param
validate_param(input, data_type, struct, dimensions) ==
    IF dimensions # <<>>
    THEN IF input.k # "list" THEN ValueError("Expected a list")
         ELSE IF dimensions[1] > 0 /\ Len(input.items) # dimensions[1]
         THEN LengthError(dimensions[1], Len(input.items))
         ELSE validate_items(input.items, 1, data_type, struct, Tail(dimensions))
    ELSE IF struct
    THEN validate_from(input, Metadata.types[data_type], 1)
    ELSE expect_scalar(data_type, input)

\* ParamChecking.validate
validate(inputs, param_list) == validate_from(inputs, param_list, 1)

\* ParamChecking.validate_params
validate_params(method_name, inputs) ==
    IF method_name \notin DOMAIN Metadata.methods
    THEN ValueError("Execpted method name")
    ELSE validate(inputs, Metadata.methods[method_name])

\* longest list among the inputs
MaxLen == 2

SeqsUpTo(S, n) == UNION { [1..m -> S] : m \in 0..n }

\* the values callers pass: scalars, lists of scalars, lists of lists,
\* dicts for the struct Addr and lists of them
Scalars ==
    { NoneV, IntV(0 - 1), IntV(0), IntV(1), BoolV(FALSE), BoolV(TRUE),
      StrV(""), StrV("1"), StrV("-1"), StrV("foo") }
Ints == { IntV(0 - 1), IntV(0), IntV(1) }
Lists1 == { ListV(items) : items \in SeqsUpTo({IntV(0 - 1), IntV(0)}, MaxLen) }
Lists2 == { ListV(items) : items \in SeqsUpTo(Lists1 \cup {IntV(1)}, MaxLen) }
AddrDicts ==
    {EmptyDict} \cup { DictV([x \in {"number"} |-> v]) : v \in Scalars \cup {ListV(<<IntV(1)>>)} }
AddrLists ==
    { ListV(items) :
        items \in SeqsUpTo({ DictV([x \in {"number"} |-> v]) : v \in Ints }
                           \cup {ListV(<<IntV(1)>>)}, MaxLen) }
InputValues == Scalars \cup Lists1 \cup Lists2 \cup AddrDicts \cup AddrLists

\* ParamChecking.validate_params(method_name, inputs), inputs being a dict
\* with at most one key
CallValidateParams ==
    /\ op.pc = "idle"
    /\ \E method_name \in DOMAIN Metadata.methods \cup {"unknown"},
          key \in {"tokenId", "flag", "first", "addr", "addrs", "foo"},
          value \in InputValues, empty \in BOOLEAN :
          LET inputs == IF empty THEN EmptyDict ELSE DictV([x \in {key} |-> value])
              r == validate_params(method_name, inputs)
          IN  /\ empty => (key = "foo" /\ value = NoneV)
              /\ method_name \in DOMAIN Metadata.methods =>
                    key \in {Metadata.methods[method_name][1].name, "foo"}
              /\ method_name = "unknown" => (key = "foo" /\ value = NoneV)
              /\ op' = [Idle EXCEPT !.pc = IF r.exc = "none" THEN "done" ELSE "raised",
                                    !.kind = "validate_params",
                                    !.method_name = method_name, !.inputs = inputs,
                                    !.exc = r.exc, !.message = r.message,
                                    !.put = op.put, !.put_by = op.put_by]
    /\ UNCHANGED <<now, server, transport, settings, cacheVars>>

----------------------------------------------------------------------------
(* save_design (libsimba/simba.py, libsimba/simba_sync.py) *)

\* ConnectionConfig.timeout: the default of the field
DEFAULT_TIMEOUT == 5
\* the least timeout save_design works with
SAVE_DESIGN_TIMEOUT == 120

\* the timeouts of the ConnectionConfig objects callers hand over
CallerTimeouts == {DEFAULT_TIMEOUT, SAVE_DESIGN_TIMEOUT, 300}

\* if config.timeout < 120: config.timeout = 120
PatientTimeout(timeout) ==
    IF timeout < SAVE_DESIGN_TIMEOUT THEN SAVE_DESIGN_TIMEOUT ELSE timeout

\* SimbaSync.save_design / Simba.save_design(org, name, code, design_id,
\* login=..., config=...): the config is the caller's object, or a new
\* ConnectionConfig() when the caller gave none; its timeout is raised in
\* place; then PutRequest(...).put_sync or PostRequest(...).post_sync with
\* that config, up to the token POST of the login step
CallSaveDesign ==
    /\ op.pc = "idle"
    /\ \E aio \in BOOLEAN, design_id \in BOOLEAN, login \in PipeLogins,
          config_given \in BOOLEAN, timeout \in CallerTimeouts,
          max_attempts \in ConfigAttempts :
          /\ ~config_given => timeout = DEFAULT_TIMEOUT
          /\ LET call == [NewCall("send", aio, login, TRUE, EmptyHeaders,
                                  max_attempts, TRUE)
                             EXCEPT !.method = IF design_id THEN "PUT" ELSE "POST",
                                    !.helper = "save_design",
                                    !.config_given = config_given,
                                    !.timeout_in = timeout,
                                    !.timeout = PatientTimeout(timeout)]
                 r == BeginLogin(call, Cache, settings, now, transport)
             IN  /\ op' = r.op
                 /\ access_tokens' = r.cache.mem
                 /\ token_file' = r.cache.file
                 /\ transport' = r.transport
    /\ UNCHANGED <<now, server, settings>>

----------------------------------------------------------------------------
(* The long-poll helpers (libsimba/simba.py, libsimba/simba_sync.py) *)

\* largest max_time a caller passes to a helper
MaxWait == 3

\* seconds slept between two polls
POLL_SLEEP == 2
\* the default of max_time of Simba.wait_for_deployment
ASYNC_DEPLOYMENT_MAX_TIME == 480

WaitHelpers == {"wait_for_deployment", "wait_for_org_transaction"}

\* wait_for_org_transaction has `if state == "FAILED": raise`;
\* wait_for_deployment has no such test
ChecksFailed(o) == o.kind = "wait_for_org_transaction"

\* (mutant: the helper waits for a state named DONE)
IsCompleted_Done(state) == state = "DONE"

\* if state == "COMPLETED"
IsCompleted(state) == state = "COMPLETED"

\* if total_time > max_time
TimedOut(o) == o.total_time > o.cur_max_time

\* the max_time of the recursive call: Simba.wait_for_deployment does not
\* pass max_time on, so its default applies; the other three pass it
NextMaxTime(o) ==
    IF o.kind = "wait_for_deployment" /\ o.aio
    THEN ASYNC_DEPLOYMENT_MAX_TIME
    ELSE o.cur_max_time

\* One invocation of a helper from the answer to its GET to its sleep:
\* res = GetRequest(...).get_sync(config) (or SimbaRequest(...).send), whose
\* exceptions propagate, then the tests on res["state"] and on total_time.
Polled(o, r) ==
    LET exc == IF IsException(r) THEN "ConnectError" ELSE JsonResponseOrRaise(r)
        state == r.body.state
        o1 == [o EXCEPT !.polls = @ + 1,
                        !.only_pending = @ /\ exc = "none" /\ state = "PENDING",
                        !.failed_at = IF @ = 0 /\ exc = "none" /\ state = "FAILED"
                                      THEN o.polls + 1 ELSE @,
                        !.slept_at_failed = IF o.failed_at = 0 THEN o.sleeps ELSE @,
                        !.completed_at = IF @ = 0 /\ exc = "none" /\ state = "COMPLETED"
                                         THEN o.polls + 1 ELSE @]
    IN  IF exc # "none" THEN Raise(o1, exc)
        ELSE IF state = "none" THEN Raise(o1, "KeyError")
        ELSE IF ChecksFailed(o) /\ state = "FAILED" THEN Raise(o1, "ValueError: FAILED")
        ELSE IF IsCompleted(state)
        THEN [o1 EXCEPT !.pc = "done", !.result = [kind |-> "dict", items |-> <<state>>]]
        ELSE IF TimedOut(o) THEN Raise(o1, "ValueError: waited way too long")
        ELSE [o1 EXCEPT !.pc = "sleep"]

\* wait_for_deployment / wait_for_org_transaction(org, uid, max_time=...),
\* blocking (SimbaSync) or awaitable (Simba), up to its first GET
CallWait ==
    /\ op.pc = "idle"
    /\ \E kind \in WaitHelpers, aio \in BOOLEAN, max_time \in 0..MaxWait :
          op' = [Idle EXCEPT !.pc = "poll", !.kind = kind, !.aio = aio,
                             !.max_time = max_time, !.cur_max_time = max_time,
                             !.total_time = 0, !.at = now]
    /\ UNCHANGED <<now, server, transport, settings, cacheVars>>

\* the GET of the invocation running is answered
Poll ==
    /\ op.pc = "poll"
    /\ \E r \in server : op' = Polled(op, r)
    /\ UNCHANGED <<now, server, transport, settings, cacheVars>>

\* time.sleep(2) / await asyncio.sleep(2) is over: total_time += 2 and the
\* helper calls itself, which sends the next GET
Sleep ==
    /\ op.pc = "sleep"
    /\ now' = now + POLL_SLEEP
    /\ op' = [op EXCEPT !.pc = "poll",
                        !.sleeps = @ + 1,
                        !.total_time = @ + POLL_SLEEP,
                        !.cur_max_time = NextMaxTime(op)]
    /\ UNCHANGED <<server, transport, settings, cacheVars>>

----------------------------------------------------------------------------
(* The clock *)

Tick ==
    /\ \E d \in TickSteps :
          /\ now + d <= MaxTicks * d
          /\ now' = now + d
    /\ UNCHANGED <<server, transport, authVars>>

----------------------------------------------------------------------------
(* The transport driven directly by a caller *)

RetryServer ==
    { Resp(200, NoRetryAfter, Json), Resp(503, NoRetryAfter, Json), ConnectError }
    \cup { Resp(429, ra, Json) : ra \in RetryAfterValues }

RetryParams ==
    { TransportParams(m, b, j, respect, close) :
        m \in 0..MaxAttempts, b \in {DEFAULT_BACKOFF_FACTOR_MS, 8000},
        j \in {0, DEFAULT_JITTER_PCT, 60}, respect \in BOOLEAN, close \in BOOLEAN }

NoSettings == [WRITE_TOKEN_TO_FILE |-> FALSE, AUTH_PROVIDER |-> "BLK"]

InitRetry ==
    /\ now = 0
    /\ server = RetryServer
    /\ \E p \in RetryParams : transport = RetryTransportInit(p)
    /\ settings = NoSettings
    /\ access_tokens = [c \in ClientIds |-> NoToken]
    /\ token_file = [c \in ClientIds |-> NoFile]
    /\ op = Idle

\* a caller sends a request through the transport
Request ==
    /\ op.pc = "idle"
    /\ transport.phase = "ready"
    /\ \E method \in {"GET", "POST"}, aio \in BOOLEAN :
          transport' = TransportRequest(transport, method, aio)
    /\ UNCHANGED <<now, server, authVars>>

\* the caller takes the response (or the exception) and is done with it
Consume ==
    /\ op.pc = "idle"
    /\ transport.phase \in {"returned", "raised"}
    /\ transport' = [transport EXCEPT !.phase = "ready", !.slept = <<>>]
    /\ UNCHANGED <<now, server, authVars>>

NextRetry == Request \/ TrSend \/ TrRetry \/ TrReturn \/ Consume \/ Tick

SpecRetry == InitRetry /\ [][NextRetry]_vars

----------------------------------------------------------------------------
(* Logins and the token cache *)

AuthServer ==
    { Resp(200, NoRetryAfter, Body("token", 60)),
      Resp(200, NoRetryAfter, Body("token", 120)),
      Resp(200, NoRetryAfter, Malformed),
      Resp(401, NoRetryAfter, Json),
      Resp(429, NoRetryAfter, Json),
      ConnectError }

InitAuth ==
    /\ now = 0
    /\ server = AuthServer
    /\ transport = NoTransport
    /\ settings \in [WRITE_TOKEN_TO_FILE : BOOLEAN, AUTH_PROVIDER : {"BLK", "NOOP"}]
    /\ access_tokens = [c \in ClientIds |-> NoToken]
    /\ token_file = [c \in ClientIds |-> NoFile]
    /\ op = Idle

NextAuth ==
    \/ CallCacheToken \/ CallGetCachedToken \/ CallLogin
    \/ TrSend \/ TrRetry \/ TrReturn \/ TokenResponse
    \/ Return \/ Restart \/ Tick

SpecAuth == InitAuth /\ [][NextAuth]_vars

----------------------------------------------------------------------------
(* Pipeline operations *)

Pages ==
    { PageOf(<<>>, "next", <<>>, 1, 2),
      PageOf(<<"a">>, "next", <<>>, 1, 1),
      PageOf(<<"b">>, "None", <<>>, 1, 1),
      PageOf(<<>>, "None", <<"c">>, 1, 2),
      PageOf(<<>>, "None", <<"d">>, 2, 2) }

PipeServer ==
    { Resp(200, NoRetryAfter, Body("token", 120)),
      Resp(200, NoRetryAfter, Json),
      Resp(200, NoRetryAfter, Malformed),
      Resp(401, NoRetryAfter, Json),
      Resp(503, NoRetryAfter, Json),
      Resp(500, NoRetryAfter, Malformed),
      ConnectError }
    \cup { Resp(200, NoRetryAfter, PageBody(p)) : p \in Pages }

\* the defaults of Settings
DefaultSettings == [WRITE_TOKEN_TO_FILE |-> TRUE, AUTH_PROVIDER |-> "BLK"]

InitPipe ==
    /\ now = 0
    /\ server = PipeServer
    /\ transport = NoTransport
    /\ settings = DefaultSettings
    /\ access_tokens = [c \in ClientIds |-> NoToken]
    /\ token_file = [c \in ClientIds |-> NoFile]
    /\ op = Idle

NextPipe ==
    \/ CallPipeline \/ TokenResponse \/ SendData
    \/ TrSend \/ TrRetry \/ TrReturn
    \/ DataResponse \/ NextPage \/ Close
    \/ Return

SpecPipe == InitPipe /\ [][NextPipe]_vars

----------------------------------------------------------------------------
(* Saving a design *)

DesignServer ==
    { Resp(200, NoRetryAfter, Body("token", 120)),
      Resp(200, NoRetryAfter, Json),
      Resp(401, NoRetryAfter, Json),
      Resp(503, NoRetryAfter, Json),
      ConnectError }

InitDesign ==
    /\ now = 0
    /\ server = DesignServer
    /\ transport = NoTransport
    /\ settings = DefaultSettings
    /\ access_tokens = [c \in ClientIds |-> NoToken]
    /\ token_file = [c \in ClientIds |-> NoFile]
    /\ op = Idle

NextDesign ==
    \/ CallSaveDesign \/ TokenResponse \/ SendData
    \/ TrSend \/ TrRetry \/ TrReturn
    \/ DataResponse \/ Return

SpecDesign == InitDesign /\ [][NextDesign]_vars

----------------------------------------------------------------------------
(* Racing logins *)

RaceServer ==
    { Resp(200, NoRetryAfter, Body("token", 120)),
      Resp(200, NoRetryAfter, Body("token", 180)),
      Resp(401, NoRetryAfter, Json),
      Resp(429, NoRetryAfter, Json),
      ConnectError }

\* a token that has expired, left by an earlier login
StaleToken == Token("stale", "Bearer", 30)

InitRace ==
    /\ now = 0
    /\ server = RaceServer
    /\ transport = NoTransport
    /\ settings \in [WRITE_TOKEN_TO_FILE : BOOLEAN, AUTH_PROVIDER : {"BLK"}]
    /\ \E stale \in BOOLEAN :
          /\ access_tokens = [c \in ClientIds |-> IF stale THEN StaleToken ELSE NoToken]
          /\ token_file = [c \in ClientIds |->
                             IF stale /\ settings.WRITE_TOKEN_TO_FILE
                             THEN model_dump_json(StaleToken) ELSE NoFile]
    /\ op = [Idle EXCEPT !.kind = "race",
                         !.tasks = [i \in Tasks |-> [op |-> Idle, transport |-> NoTransport]]]

NextRace == TaskLogin \/ TaskSend \/ TaskRetry \/ TaskResponse

SpecRace == InitRace /\ [][NextRace]_vars

----------------------------------------------------------------------------
(* Validating parameters *)

InitParams ==
    /\ now = 0
    /\ server = {}
    /\ transport = NoTransport
    /\ settings = DefaultSettings
    /\ access_tokens = [c \in ClientIds |-> NoToken]
    /\ token_file = [c \in ClientIds |-> NoFile]
    /\ op = Idle

NextParams == CallValidateParams \/ Return

SpecParams == InitParams /\ [][NextParams]_vars

----------------------------------------------------------------------------
(* Long polls *)

WaitServer ==
    { Resp(200, NoRetryAfter, StateBody(st)) : st \in {"PENDING", "COMPLETED", "FAILED"} }
    \cup { Resp(200, NoRetryAfter, Json), Resp(503, NoRetryAfter, Json), ConnectError }

InitWait ==
    /\ now = 0
    /\ server = WaitServer
    /\ transport = NoTransport
    /\ settings = DefaultSettings
    /\ access_tokens = [c \in ClientIds |-> NoToken]
    /\ token_file = [c \in ClientIds |-> NoFile]
    /\ op = Idle

NextWait == CallWait \/ Poll \/ Sleep

SpecWait == InitWait /\ [][NextWait]_vars

----------------------------------------------------------------------------
(* Properties of the retrying transport *)

Last(s) == s[Len(s)]
Retryable(status) == status \in RETRYABLE_STATUS_CODES
Handling == transport.phase \in {"sent", "returned", "raised"}

\* C1: a request whose method is not one of the retryable methods (POST) is
\* never resent: the wrapped transport is called exactly once and the first
\* response is the one returned, whatever its status.
C1_PostNeverResent ==
    (Handling /\ transport.request.method \notin RETRYABLE_METHODS) =>
        /\ transport.calls = 1
        /\ transport.attempts_made = 0

\* C2: for a retryable method the transport resends as long as the answers
\* are retryable and attempts remain, and stops at the first answer with
\* another status: the answers received before the returned one all have a
\* retryable status, the returned response is the last one received, it is
\* not retryable unless max_attempts resends were made, and the number of
\* resends (and of sleeps) is the number of retryable answers before it
\* (none for k = 0).
C2_ReturnsFirstNonRetryable ==
    LET t == transport
        k == Len(t.seen) - 1
    IN  (t.phase \in {"sent", "returned"} /\ t.request.method \in RETRYABLE_METHODS) =>
            /\ \A i \in 1..k : Retryable(t.seen[i])
            /\ t.response.status = Last(t.seen)
            /\ t.calls = k + 1
            /\ t.attempts_made = k
            /\ k <= t.max_attempts
            /\ IF k = 0 THEN t.last_retry_info = <<>>
               ELSE /\ Len(t.last_retry_info) = 1
                    /\ t.last_retry_info[1].attempts_made = k
                    /\ t.last_retry_info[1].response_code = Last(t.seen)
            /\ (t.phase = "returned" /\ k < t.max_attempts) => ~Retryable(Last(t.seen))

\* a GET answered 429, 429, 200 has returned the 200 after two retries
C2_Witness ==
    /\ transport.phase = "returned"
    /\ transport.request.method = "GET"
    /\ transport.seen = <<429, 429, 200>>
    /\ transport.response.status = 200
    /\ transport.attempts_made = 2

\* C3: the wrapped transport is never called more than 1 + max_attempts
\* times for one request; while a request is being handled the loop can
\* always take its next step; and when the returned response still has a
\* retryable status, exactly max_attempts resends were made and that last
\* response is returned, not an exception.
C3_GivesUpAfterMaxAttempts ==
    LET t == transport
    IN  /\ Handling => t.calls <= 1 + t.max_attempts
        /\ t.phase = "sent" => ENABLED (TrRetry \/ TrReturn)
        /\ (t.phase \in {"sent", "returned"} /\ \A i \in 1..Len(t.seen) : Retryable(t.seen[i])) =>
              /\ t.phase = "returned" =>
                    /\ t.calls = 1 + t.max_attempts
                    /\ t.attempts_made = t.max_attempts
                    /\ t.remaining_attempts = 0
                    /\ t.response.status = Last(t.seen)
              /\ t.calls < 1 + t.max_attempts => ENABLED TrRetry

\* every answer was retryable and the transport has given up after
\* max_attempts = 2 resends
C3_Witness ==
    /\ transport.phase = "returned"
    /\ transport.max_attempts = 2
    /\ transport.seen = <<429, 503, 429>>
    /\ transport.calls = 3
    /\ Retryable(transport.response.status)


----------------------------------------------------------------------------
(* Properties of the token cache and of the login step *)

\* the token the cache holds for a client id in the snapshot b: the one of
\* the in-memory map, else the one of the token file when file caching is on
StoredToken(b) ==
    IF b.mem # NoToken THEN b.mem
    ELSE IF settings.WRITE_TOKEN_TO_FILE /\ b.file # NoFile THEN AuthTokenFromJson(b.file)
    ELSE NoToken

ExpiredAt(token, clock) == token.expires <= clock + TOKEN_EXPIRY_OFFSET

ClientId == op.login.client_id

\* the caller's headers have an Authorization entry that is not empty
CarriesAuthorization ==
    /\ "Authorization" \in DOMAIN op.in_headers
    /\ op.in_headers["Authorization"] # <<>>

\* a login step went through ClientCredentials
CredentialsLogin ==
    /\ op.kind = "login"
    /\ op.authenticated
    /\ op.login.auth_flow = "client_credentials"

\* C4: get_cached_token never returns a token that expires at or before
\* now + 60 s; when the token the cache holds is expired it returns None, and
\* then neither the in-memory map nor (file caching on) the token file holds
\* that token.
C4_ExpiredTokenPurged ==
    (op.kind = "get_cached_token" /\ op.pc = "done") =>
        LET stored == StoredToken(op.before)
        IN  /\ op.token # NoToken => ~ExpiredAt(op.token, op.at)
            /\ (stored # NoToken /\ ExpiredAt(stored, op.at)) =>
                  /\ op.token = NoToken
                  /\ access_tokens[ClientId] # stored
                  /\ settings.WRITE_TOKEN_TO_FILE =>
                        token_file[ClientId] # model_dump_json(stored)

\* a token expiring exactly at now + 60 s, held in memory and in the file,
\* was not returned and is gone from both
C4_Witness ==
    /\ op.kind = "get_cached_token" /\ op.pc = "done"
    /\ settings.WRITE_TOKEN_TO_FILE
    /\ op.before.mem # NoToken
    /\ op.before.mem.expires = op.at + TOKEN_EXPIRY_OFFSET
    /\ op.before.file = model_dump_json(op.before.mem)
    /\ op.token = NoToken
    /\ access_tokens[ClientId] = NoToken
    /\ token_file[ClientId] = NoFile

\* C5: a login (headers without Authorization) that finds a token in the
\* cache which has not expired performs no token exchange and sends nothing,
\* and attaches that token; a login that finds none performs exactly one
\* exchange; either way the token it attached is the cached one afterwards,
\* so that of a sequence of logins only the first one exchanges.
C5_OneExchangePerCachedToken ==
    (CredentialsLogin /\ "Authorization" \notin DOMAIN op.in_headers) =>
        LET stored == StoredToken(op.before)
            valid == stored # NoToken /\ ~ExpiredAt(stored, op.at)
        IN  /\ valid => /\ op.pc \in {"done", "raised"}
                        /\ op.exchanges = 0 /\ op.posts = 0
                        /\ op.pc = "done" => op.token = stored
            /\ op.pc = "done" =>
                  /\ op.exchanges = (IF valid THEN 0 ELSE 1)
                  /\ op.token # NoToken
                  /\ access_tokens[ClientId] = op.token

\* a login has found the token of an earlier exchange in the in-memory map
\* and has taken it without an exchange
C5_Witness ==
    /\ CredentialsLogin /\ op.pc = "done"
    /\ "Authorization" \notin DOMAIN op.in_headers
    /\ op.before.mem = op.token
    /\ op.token.token = "1234567890"
    /\ op.exchanges = 0 /\ op.posts = 0
    /\ op.at > 0

\* what C6 says of a login step
ShortCircuit ==
    /\ op.pc = "done"
    /\ op.exchanges = 0 /\ op.posts = 0
    /\ op.cache_reads = 0
    /\ Snapshot(ClientId) = op.before
    /\ op.headers = op.in_headers

C7_AuthorizationAdded ==
    (CredentialsLogin /\ op.pc = "done" /\ "Authorization" \notin DOMAIN op.in_headers) =>
        /\ op.token # NoToken
        /\ DOMAIN op.headers = DOMAIN op.in_headers \cup {"Authorization"}
        /\ op.headers["Authorization"] = <<op.token.type, op.token.token>>
        /\ \A k \in DOMAIN op.in_headers : op.headers[k] = op.in_headers[k]

\* the login of the test: {"bob": "test"} has become
\* {"bob": "test", "Authorization": "Bearer 1234567890"} after one exchange
C7_Witness ==
    /\ CredentialsLogin /\ op.pc = "done"
    /\ op.in_headers = Bob
    /\ op.exchanges = 1
    /\ op.headers = HeaderSet(Bob, "Authorization", <<"Bearer", "1234567890">>)

\* C9: when the answer to the token POST is an error status, the login
\* raises at once: the POST went out exactly once, no token was written to
\* the in-memory map or to the token file and the headers are as they were.
C9_FailedExchangeNotRetried ==
    (CredentialsLogin /\ op.pc \in {"done", "raised"} /\ op.exchanges = 1
        /\ op.first_status >= 400) =>
        /\ op.pc = "raised"
        /\ op.posts = 1
        /\ access_tokens[ClientId] = NoToken
        /\ token_file[ClientId] = NoFile
        /\ op.headers = op.in_headers

\* what C10 says of a login step
ConfigurationError ==
    /\ op.pc = "raised" /\ op.exc = "ValueError"
    /\ op.exchanges = 0 /\ op.posts = 0
    /\ Snapshot(ClientId) = op.before
    /\ op.headers = op.in_headers

UnknownProvider == ProviderName(op.login, settings) \notin RegisteredProviders

\* C10 as stated: every login whose provider (login.provider, else the
\* configured default) is not in the registry raises ValueError, with no
\* network call and no change of the cache or the headers.
C10_UnknownProviderAlwaysRaises ==
    (CredentialsLogin /\ UnknownProvider) => ConfigurationError

\* C10, amended: a login made with headers that have no non-empty
\* Authorization entry and whose provider is not in the registry raises
\* ValueError, with no network call and no change of the cache or the
\* headers, also when a valid token for the client id is cached.
C10_UnknownProviderRaises ==
    (CredentialsLogin /\ UnknownProvider /\ ~CarriesAuthorization) =>
        ConfigurationError

\* a login with an unregistered provider has raised although the in-memory
\* map holds a token that has not expired
C10_Witness ==
    /\ CredentialsLogin /\ UnknownProvider
    /\ op.pc = "raised" /\ op.exc = "ValueError"
    /\ op.before.mem # NoToken
    /\ ~ExpiredAt(op.before.mem, op.at)
    /\ access_tokens[ClientId] = op.before.mem

----------------------------------------------------------------------------
(* Properties of the request pipeline *)

\* an authenticated send, call, retrieve or retrieve_iter, blocking or not
AuthenticatedOperation == op.kind \in PipelineKinds /\ op.authenticated

\* the login step of the call is still running
InLogin == op.pc \in {"login", "token_post"}

\* the login step of the call has raised
LoginRaised == op.pc = "raised" /\ op.raised_in \in {"login", "token_post"}

\* C8: in an authenticated send, call, retrieve or retrieve_iter (blocking or
\* not) no data request is issued while the login step is running or after
\* it has raised; every data request carries the headers the login step
\* returned, whose Authorization is "<type> <token>" of the token the login
\* obtained (or the caller's own, when the caller passed one); and data
\* request i + 1 is issued only when i responses have been received and
\* decoded, at most one request being outstanding at any time.
C8_LoginThenRequestsInOrder ==
    AuthenticatedOperation =>
        /\ (InLogin \/ LoginRaised) => op.sent = <<>>
        /\ op.pc = "token_post" => transport.request.method = "POST"
        /\ op.sent # <<>> =>
              /\ op.login.auth_flow \in PROVIDERS
              /\ "Authorization" \in DOMAIN op.headers
              /\ IF CarriesAuthorization
                 THEN op.headers = op.in_headers /\ op.exchanges = 0
                 ELSE /\ op.token # NoToken
                      /\ op.headers["Authorization"] = <<op.token.type, op.token.token>>
        /\ \A i \in 1..Len(op.sent) :
              /\ op.sent[i].headers = op.headers
              /\ op.sent[i].decoded = i - 1
        /\ Len(op.sent) - op.decoded \in {0, 1}
        /\ Len(op.sent) > op.decoded =>
              op.pc = "data_request" \/ (op.pc = "raised" /\ op.raised_in = "data_request")
        /\ op.kind # "retrieve_iter" => Len(op.sent) <= 1

\* a lazy retrieval has logged in with one token exchange and has then
\* fetched two pages, one after the other, each with the header of that
\* login
C8_Witness ==
    /\ AuthenticatedOperation
    /\ op.kind = "retrieve_iter"
    /\ op.exchanges = 1
    /\ Len(op.sent) = 2 /\ op.decoded = 2
    /\ op.sent[1].headers["Authorization"] = <<"Bearer", "1234567890">>
    /\ op.sent[2].headers["Authorization"] = <<"Bearer", "1234567890">>
    /\ op.sent[2].url = "next"
    /\ op.pc = "yielded"

----------------------------------------------------------------------------
(* Properties of the api-key flow *)

\* C11: an authenticated login with auth flow api-key sends nothing and
\* returns the caller's headers with the entry api-key = <client_secret>
\* added.
C11_ApiKeyHeaderInjected ==
    (op.kind = "login" /\ op.authenticated /\ op.login.auth_flow = "api-key") =>
        /\ op.pc = "done"
        /\ op.posts = 0 /\ op.exchanges = 0
        /\ op.headers = HeaderSet(op.in_headers, "api-key", <<op.login.client_secret>>)

----------------------------------------------------------------------------
(* The blocking and the awaitable login compared *)

\* the transport t after the wrapped transport has given the answers, in turn
RECURSIVE Feed(_, _, _)
Feed(t, answers, clock) ==
    IF answers = <<>>
    THEN IF t.phase = "sent" THEN [t EXCEPT !.phase = "returned"] ELSE t
    ELSE IF t.phase = "created"
    THEN Feed(FirstSend(t, Head(answers)), Tail(answers), clock)
    ELSE IF t.phase = "sent" /\ ShouldRetry(t)
    THEN Feed(RetryOnce(t, Head(answers), clock, 1), Tail(answers), clock)
    ELSE [t EXCEPT !.phase = IF @ = "sent" THEN "returned" ELSE @]

\* a login call run from its start to its end against the given answers of
\* the token endpoint
LoginRun(call, c, st, clock, answers, end_clock) ==
    LET b == BeginLogin(call, c, st, clock, NoTransport)
    IN  IF b.op.pc = "token_post"
        THEN EndLogin(b.op, b.cache, st, end_clock, Feed(b.transport, answers, clock))
        ELSE [op |-> b.op, cache |-> b.cache]

\* what a caller can observe of a finished login
Outcome(o, c) ==
    [ pc |-> o.pc, exc |-> o.exc, token |-> o.token, headers |-> o.headers,
      mem |-> c.mem[o.login.client_id], file |-> c.file[o.login.client_id] ]

\* the answers the token endpoint gave to the login that has ended
AnswersGiven ==
    [ i \in 1..Len(op.answers) |->
        IF i = Len(op.answers) THEN op.answer
        ELSE Resp(op.answers[i], NoRetryAfter, Json) ]

\* the same login made through the other entry point: same arguments, same
\* cache, same clock, same answers
OtherEntryPoint ==
    LET call == [op EXCEPT !.pc = "login", !.aio = ~op.aio, !.headers = op.in_headers,
                           !.token = NoToken, !.exc = "none", !.raised_in = "none",
                           !.cache_reads = 0, !.exchanges = 0, !.posts = 0,
                           !.first_status = -1, !.answers = <<>>,
                           !.answer = NoResponse, !.ended_at = 0]
        c == [ mem |-> [x \in ClientIds |-> IF x = ClientId THEN op.before.mem
                                            ELSE access_tokens[x]],
               file |-> [x \in ClientIds |-> IF x = ClientId THEN op.before.file
                                             ELSE token_file[x]] ]
        r == LoginRun(call, c, settings, op.at, AnswersGiven, op.ended_at)
    IN  Outcome(r.op, r.cache)

LoginEnded == CredentialsLogin /\ op.pc \in {"done", "raised"}

\* C12: a login through a registered provider ends the same way through
\* login_sync and through login: given the same arguments, cache, clock and
\* answers of the auth server, the token, the headers, the cache entries and
\* the error raised are the same.
C12_SyncAndAsyncLoginAgree ==
    (LoginEnded /\ ProviderName(op.login, settings) \in RegisteredProviders) =>
        Outcome(op, Cache) = OtherEntryPoint

----------------------------------------------------------------------------
(* Properties of paging *)

\* a cursor-style page: non-empty results, and next the URL of the page
\* that follows or null
CursorPage(page) == page.results # <<>>

ListOf(items) == [kind |-> "list", items |-> items]

\* the lazy retrieval has run to its end by itself
Exhausted == op.pc = "done" /\ op.next_page_url = "None"

\* C13: as long as the pages a lazy retrieval has fetched are cursor-style
\* pages, it has yielded exactly their result lists, in the order fetched,
\* one data request per page: the first to the URL of the request, each
\* later one to the next of the page before it, and none after a page whose
\* next is null; it ends by itself only after such a page.  An eager
\* retrieval that returns has issued exactly one data request and returns
\* the list of that page.
C13_CursorPagesYieldedInOrder ==
    /\ (op.kind = "retrieve_iter" /\ \A i \in 1..Len(op.pages) : CursorPage(op.pages[i])) =>
          /\ Len(op.yields) = Len(op.pages)
          /\ \A i \in 1..Len(op.pages) : op.yields[i] = ListOf(op.pages[i].results)
          /\ Len(op.sent) \in {Len(op.pages), Len(op.pages) + 1}
          /\ op.sent # <<>> => op.sent[1].url = build_url(op.q0)
          /\ \A i \in 2..Len(op.sent) :
                /\ op.pages[i - 1].next # "None"
                /\ op.sent[i].url = op.pages[i - 1].next
          /\ Exhausted =>
                /\ op.pages # <<>>
                /\ op.pages[Len(op.pages)].next = "None"
                /\ Len(op.sent) = Len(op.pages)
          /\ (op.pc = "yielded" /\ op.pages[Len(op.pages)].next = "None") =>
                op.next_page_url = "None"
    /\ (op.kind = "retrieve" /\ op.pc = "done") =>
          /\ Len(op.sent) = 1 /\ Len(op.pages) = 1
          /\ op.result = ListOf(PagerList(op.pages[1]))
          /\ CursorPage(op.pages[1]) => op.result = ListOf(op.pages[1].results)

\* a lazy retrieval over the pages p1 = ["a"] (next set), p2 = ["a"] (next
\* set), p3 = ["b"] (next null) has yielded the three lists in order with
\* three requests and has ended
C13_Witness ==
    /\ op.kind = "retrieve_iter" /\ Exhausted
    /\ Len(op.pages) = 3 /\ Len(op.sent) = 3
    /\ op.pages[1].next = "next" /\ op.pages[2].next = "next" /\ op.pages[3].next = "None"
    /\ op.yields = <<ListOf(<<"a">>), ListOf(<<"a">>), ListOf(<<"b">>)>>

\* the None a lazy retrieval yields for a page without items
Sentinel == [kind |-> "none", items |-> <<>>]

\* C14: when a page fetched by a lazy retrieval has no items (results and
\* items both empty or missing), the retrieval yields None for it and stops:
\* that page is the last one fetched and no request follows it, whatever
\* its next URL and its page count say.
C14_EmptyPageEndsRetrieval ==
    op.kind = "retrieve_iter" =>
        \A i \in 1..Len(op.pages) :
            PagerList(op.pages[i]) = <<>> =>
                /\ i = Len(op.pages)
                /\ Len(op.yields) = i /\ op.yields[i] = Sentinel
                /\ \A j \in 1..(i - 1) : op.yields[j] # Sentinel
                /\ Len(op.sent) = i
                /\ op.pc \in {"yielded", "done"}
                /\ op.pc = "yielded" => op.next_page_url = "None"

\* a lazy retrieval has fetched a page of results and then an empty page
\* that has a next URL and reports two pages: it has yielded the list, then
\* None, and has ended after two requests
C14_Witness ==
    /\ op.kind = "retrieve_iter" /\ Exhausted
    /\ Len(op.pages) = 2 /\ Len(op.sent) = 2
    /\ op.pages[2] = PageOf(<<>>, "next", <<>>, 1, 2)
    /\ op.yields = <<ListOf(<<"a">>), Sentinel>>

\* C15: a lazy retrieval made on a SimbaRequest object on which a lazy
\* retrieval has been made before starts from page one again: its first
\* data request has the URL and the query parameters of the first data
\* request of the retrieval before it; and a retrieval that has ended has
\* left the object's query parameters as it found them.
C15_SecondIterationFromPageOne ==
    op.kind = "retrieve_iter" =>
        /\ (op.prev_first # <<>> /\ op.sent # <<>>) =>
              /\ op.sent[1].url = op.prev_first[1].url
              /\ op.sent[1].params = op.prev_first[1].params
        /\ op.pc = "done" => op.query_params = op.q0

----------------------------------------------------------------------------
(* Properties of the decoding of responses *)

TypedErrors == {"SimbaInvalidURLException", "SimbaRequestException", "LibSimbaException"}

\* C16: when the response the transport hands back for a data request of
\* send, call, retrieve or retrieve_iter (blocking or not) has a status of
\* 400 or more, the operation raises SimbaInvalidURLException,
\* SimbaRequestException or LibSimbaException and gives its caller nothing
\* for that response (no page decoded, nothing yielded or returned), also
\* when that response is the one left after the transport's retries.
C16_ErrorStatusRaisesTypedError ==
    (op.kind \in PipelineKinds /\ op.data_answer.status >= 400) =>
        /\ op.pc = "raised"
        /\ op.raised_in = "data_request"
        /\ op.exc \in TypedErrors
        /\ Len(op.pages) = Len(op.sent) - 1
        /\ Len(op.yields) = Len(op.pages)
        /\ op.kind # "retrieve_iter" => op.result.kind = "none"

\* a call whose request was answered 503 twice, the transport having used
\* its one retry, has raised LibSimbaException
C16_Witness ==
    /\ op.kind = "call" /\ op.pc = "raised"
    /\ op.max_attempts = 1 /\ op.data_calls = 2
    /\ op.data_answer.status = 503
    /\ op.exc = "LibSimbaException"

----------------------------------------------------------------------------
(* Properties of send *)

\* C17: a send or send_sync of a request whose method is GET, PUT, POST,
\* PATCH or DELETE that got past its login step has issued exactly one data
\* request, of that method, and has returned the decoded JSON or, when the
\* response could not be decoded or had an error status, raised a typed
\* error.
C17_SendHandlesEveryMethod ==
    (op.kind = "send" /\ op.method \in SendMethods
        /\ op.pc \in {"done", "raised"} /\ ~LoginRaised) =>
        /\ Len(op.sent) = 1
        /\ op.sent[1].method = op.method
        /\ op.pc = "done" => op.result.kind = "dict"
        /\ (op.pc = "raised" /\ op.data_answer.status > 0) => op.exc \in TypedErrors

\* C18: when send / send_sync has returned or raised, no file handle that
\* it opened for the upload of an attached FileDict is still open.
C18_UploadHandlesClosed ==
    (op.kind = "send" /\ op.pc \in {"done", "raised"}) => op.open_files = 0

----------------------------------------------------------------------------
(* Properties of the long-poll helpers *)

WaitCall == op.kind \in WaitHelpers

\* C19: once a poll of a wait_for_* helper has observed the state FAILED,
\* the helper has raised, and it has neither polled nor slept since that
\* poll.
C19_FailedRaisesAtOnce ==
    (WaitCall /\ op.failed_at > 0) =>
        /\ op.pc = "raised"
        /\ op.polls = op.failed_at
        /\ op.sleeps = op.slept_at_failed

\* C20: a wait_for_* helper called with max_time whose polls have all
\* observed PENDING sleeps at most floor(max_time / 2) + 1 times, sleeps
\* only while the time waited does not exceed max_time, and raises its
\* timeout error at the first poll made with more than max_time waited.
C20_TimesOutAfterMaxTime ==
    (WaitCall /\ op.only_pending) =>
        /\ op.sleeps <= (op.max_time \div POLL_SLEEP) + 1
        /\ op.total_time = POLL_SLEEP * op.sleeps
        /\ op.pc = "sleep" => op.total_time <= op.max_time
        /\ op.pc = "raised" =>
              /\ op.exc = "ValueError: waited way too long"
              /\ op.total_time > op.max_time
              /\ op.sleeps = (op.max_time \div POLL_SLEEP) + 1

\* C21: a wait_for_* helper returns the polled resource at the first poll
\* that observes COMPLETED: no poll is made after it, and if it is poll
\* number k then exactly k-1 sleeps of 2 seconds were taken before it.
C21_ReturnsAtFirstCompleted ==
    /\ (WaitCall /\ op.completed_at > 0) =>
          /\ op.pc = "done"
          /\ op.polls = op.completed_at
          /\ op.sleeps = op.polls - 1
          /\ op.total_time = POLL_SLEEP * op.sleeps
          /\ now = op.at + POLL_SLEEP * op.sleeps
          /\ op.result = [kind |-> "dict", items |-> <<"COMPLETED">>]
    /\ (WaitCall /\ op.pc = "done") => op.completed_at = op.polls

\* PENDING, PENDING, COMPLETED: returned after two sleeps
C21_Witness ==
    /\ op.kind = "wait_for_org_transaction"
    /\ op.pc = "done"
    /\ op.failed_at = 0
    /\ op.polls = 3
    /\ op.sleeps = 2

----------------------------------------------------------------------------
(* The cache round trip *)

\* C22: get_cached_token(client_id) returns a token equal to the one that
\* cache_token(client_id, T) was last called with, as long as T has not
\* expired, when the in-memory map holds a token and also when the map is
\* empty (a fresh provider instance) and file caching is enabled.
C22_CachedTokenReturned ==
    ( /\ op.kind = "get_cached_token" /\ op.pc = "done"
      /\ op.put # NoToken
      /\ ~ExpiredAt(op.put, op.at)
      /\ op.before.mem # NoToken \/ settings.WRITE_TOKEN_TO_FILE ) =>
        op.token = op.put

\* the token was re-read from the token file by a fresh instance, some time
\* after it was cached
C22_Witness ==
    /\ op.kind = "get_cached_token" /\ op.pc = "done"
    /\ settings.WRITE_TOKEN_TO_FILE
    /\ op.before.mem = NoToken
    /\ op.put # NoToken
    /\ op.at > 0
    /\ op.token = op.put

----------------------------------------------------------------------------
(* The caller's objects *)

\* C23: a call changes no field of the ConnectionConfig its caller handed
\* to it: whatever the call has done, the timeout of that object is the
\* one it had when the call was made.
C23_CallerConfigUnchanged ==
    (op.helper = "save_design" /\ op.config_given) => op.timeout = op.timeout_in

----------------------------------------------------------------------------
(* Properties of the parameter validation *)

\* a validate_params call on a method of the contract is over
Validated ==
    /\ op.kind = "validate_params"
    /\ op.pc \in {"done", "raised"}
    /\ op.method_name \in DOMAIN Metadata.methods

\* the params of the method called, _bundleHash apart
DeclaredParams ==
    LET params == Metadata.methods[op.method_name]
    IN  { params[i] : i \in { j \in 1..Len(params) : params[j].name # "_bundleHash" } }

Components(type) ==
    LET params == Metadata.types[type]
    IN  { params[i] : i \in 1..Len(params) }

RECURSIVE Violations(_, _, _, _)
\* the ways a value goes against a declaration (its type name, whether it
\* is a struct, and its dimensions, outermost first): a list of the wrong
\* length, something that is not a list for an array, a list for a struct,
\* a negative number for a uint, at any depth
Violations(value, data_type, struct, dimensions) ==
    IF dimensions # <<>>
    THEN IF value.k # "list" THEN {"not a list"}
         ELSE (IF dimensions[1] > 0 /\ Len(value.items) # dimensions[1]
               THEN {"length"} ELSE {})
              \cup UNION { Violations(value.items[i], data_type, struct, Tail(dimensions)) :
                           i \in 1..Len(value.items) }
    ELSE IF struct
    THEN IF value.k = "list" THEN {"list for a struct"}
         ELSE IF value.k = "dict"
         THEN UNION { IF c.name \in DOMAIN value.f
                      THEN LET t == get_type_info(c.type)
                           IN  Violations(value.f[c.name], t.data_type, t.struct, t.dimensions)
                      ELSE {} : c \in Components(data_type) }
         ELSE {}
    ELSE IF data_type = "uint256" /\ value.k = "int" /\ value.n < 0 THEN {"negative"}
    ELSE {}

\* the violations among the inputs of the call
InputViolations ==
    UNION { IF p.name \in DOMAIN op.inputs.f
            THEN LET t == get_type_info(p.type)
                 IN  Violations(op.inputs.f[p.name], t.data_type, t.struct, t.dimensions)
            ELSE {} : p \in DeclaredParams }

\* C24: validate_params raises ValueError whenever its inputs hold a
\* negative value for a uint, a list whose length differs from the fixed
\* dimension declared, something that is not a list for an array or a list
\* for a struct, at any depth; when a wrong length is all there is, the
\* message names the expected and the actual length.
C24_ViolationsRaiseValueError ==
    Validated =>
        /\ InputViolations # {} => (op.pc = "raised" /\ op.exc = "ValueError")
        /\ InputViolations = {"length"} =>
              /\ op.message.expected >= 0
              /\ op.message.got >= 0
              /\ op.message.expected # op.message.got

RECURSIVE Passes(_, _, _, _)
\* the value passes the type check of a declaration
Passes(value, data_type, struct, dimensions) ==
    IF dimensions # <<>>
    THEN /\ value.k = "list"
         /\ dimensions[1] = 0 \/ Len(value.items) = dimensions[1]
         /\ \A i \in 1..Len(value.items) :
               Passes(value.items[i], data_type, struct, Tail(dimensions))
    ELSE IF struct
    THEN /\ value.k = "dict"
         /\ \A c \in Components(data_type) :
               /\ c.name \in DOMAIN value.f
               /\ LET t == get_type_info(c.type)
                  IN  Passes(value.f[c.name], t.data_type, t.struct, t.dimensions)
    ELSE IF data_type = "uint256" THEN value.k = "int" /\ value.n >= 0
    ELSE IF data_type = "bool" THEN value.k = "bool"
    ELSE value.k = "str"

\* C30: validate_params raises nothing when every declared parameter is
\* among the inputs with a value that passes its type check, the values 0,
\* False and [] included.
C30_ValidInputsAccepted ==
    ( /\ Validated
      /\ \A p \in DeclaredParams :
            /\ p.name \in DOMAIN op.inputs.f
            /\ LET t == get_type_info(p.type)
               IN  Passes(op.inputs.f[p.name], t.data_type, t.struct, t.dimensions) ) =>
        op.pc = "done"

----------------------------------------------------------------------------
(* Properties of concurrent logins *)

Task(i) == op.tasks[i].op
TaskOver(i) == Task(i).pc \in {"done", "raised"}

\* C25: of tasks logging in concurrently for one client id, each that ends
\* its login has an Authorization header built from a token that one of
\* their exchanges issued, and once all are over and one has logged in the
\* cache holds one of the issued tokens for the client id, the same in the
\* in-memory map and (file caching on) in the token file.
C25_RacingLoginsEndWithIssuedToken ==
    op.kind = "race" =>
        /\ \A i \in Tasks :
              Task(i).pc = "done" =>
                  \E token \in op.issued :
                      Task(i).headers = [k \in {"Authorization"} |-> <<token.type, token.token>>]
        /\ ( /\ \A i \in Tasks : TaskOver(i)
             /\ \E i \in Tasks : Task(i).pc = "done" ) =>
              /\ access_tokens["me"] \in op.issued
              /\ settings.WRITE_TOKEN_TO_FILE =>
                    token_file["me"] = <<access_tokens["me"].token, access_tokens["me"].type,
                                         access_tokens["me"].expires>>

\* both tasks found no usable token (one of them an expired one) and made
\* an exchange of their own, so that two exchanges were in flight at once;
\* both have logged in, with different tokens, and the cache holds the
\* token of the first task
C25_Witness ==
    /\ op.kind = "race"
    /\ \A i \in Tasks : Task(i).pc = "done" /\ Task(i).exchanges = 1 /\ Task(i).cache_reads = 1
    /\ \E i \in Tasks : Task(i).before.mem = StaleToken
    /\ Task(1).token # Task(2).token
    /\ access_tokens["me"] = Task(1).token

----------------------------------------------------------------------------
(* Properties of the sleeps and of the responses of the transport *)

\* C26: every sleep the transport takes between two attempts is at most
\* max_backoff_wait, whether it comes from the backoff or from a Retry-After
\* header.
C26_SleepAtMostMaxWait ==
    \A i \in 1..Len(transport.slept) :
        transport.slept[i].sleep_time <= transport.max_backoff_wait

\* C27: with no Retry-After header, the sleep before the n-th resend is
\* min(max_backoff_wait, b + j) with b = backoff_factor * 2^(n-1) and
\* j = +/- jitter_ratio * b (0.5 s before the first resend with the default
\* factor).
C27_BackoffDoublesFromFactor ==
    \A i \in 1..Len(transport.slept) :
        transport.slept[i].retry_after.kind = "none" =>
            LET b == transport.backoff_factor * Pow2(transport.slept[i].n - 1)
                j == (b * transport.jitter_ratio) \div 100
            IN  transport.slept[i].sleep_time
                    \in { Min(b + j, transport.max_backoff_wait),
                          Min(b - j, transport.max_backoff_wait) }

\* C28: at no point are two responses of one request open: the response
\* that a resend replaces is closed before the resend.
C28_OneResponseOpen ==
    transport.open <= 1

----------------------------------------------------------------------------
(* Whose token a login attaches *)

\* C29: the token a login has attached came from an exchange made through
\* the provider of that Login and with its client_secret: a token cached by
\* a login through another provider, or with another client_secret, is not
\* attached.
C29_TokenOfOwnProviderAndSecret ==
    ( /\ CredentialsLogin /\ op.pc = "done"
      /\ "Authorization" \notin DOMAIN op.in_headers
      /\ op.put_by # NoIssuer ) =>
        /\ op.put_by.provider = ProviderName(op.login, settings)
        /\ op.put_by.client_secret = op.login.client_secret

====
